---- MODULE Spec2Model ----
(***************************************************************************)
(* KujiraAPIDataSource (kujira_api_data_source.py): the order-lifecycle    *)
(* coordinator of the Kujira CLOB connector, as a state machine.           *)
(*                                                                         *)
(* The coordinator runs on one asyncio event loop: a call runs without     *)
(* interruption from one suspension point to the next.  One action of the  *)
(* model is one such segment of one call.  The suspension points are the   *)
(* awaits of a gateway request, the wait for a held lock, the wait for an  *)
(* order's venue id and the gather of batch_order_cancel.  Acquiring a     *)
(* free asyncio.Lock, awaiting get_exchange_order_id() of an order that    *)
(* has its id, or had one before batch_order_create reset it, and          *)
(* gathering an empty list of waits do not suspend.                        *)
(* The waits of a non-empty gather run at the loop's next turn; each keeps  *)
(* what it returned, whatever the order's venue id becomes afterwards, and *)
(* a wait that began without an id ends by its timeout alone.              *)
(*                                                                         *)
(* The gateway is the environment: every awaited request ends with one of  *)
(* the answers the transport can give, chosen nondeterministically.        *)
(*                                                                         *)
(* Five specifications share the actions.  Spec: one call of one           *)
(* operation on a coordinator at rest, over every state the orders can be  *)
(* in.  SpecLifecycle: start() and stop() in every interleaving, with the  *)
(* loop tasks they create and cancel.  SpecConcurrent: concurrent calls of *)
(* the order operations and of start() and stop(), contending for the      *)
(* locks.  SpecOrdering: single cancels and batch places that follow one   *)
(* another, each task calling again when its call has ended.               *)
(* SpecCancelFair: concurrent single and batch cancels under weak          *)
(* fairness of every step of a call, for termination.                      *)
(***************************************************************************)
EXTENDS Integers, Sequences, FiniteSets, TLC

\* ------------------------------------------------------------------ bounds
NumTasks == 2      \* calls that can be in flight at the same time
NumOrders == 2     \* orders known to the trading engine

Tasks == 1..NumTasks
Orders == 1..NumOrders

\* ------------------------------------------------------------ value domains
NoneVal == "None"            \* Python's None
Missing == "<missing>"       \* a key the response does not carry
EmptyHash == ""
TxHashes == {"0xaa", "0xbb"} \* non-empty transaction hashes the venue returns
VenueIds == {ToString(i) : i \in Orders} \* venue order ids the venue returns
TradingPair == "KUJI-USK"    \* the configured pair, trading_pairs[0]
OtherPair == "OTHER-USK"

\* kujira_api_data_source.py:293
ZeroHash == "0000000000000000000000000000000000000000000000000000000000000000"

PENDING_CREATE == "PENDING_CREATE"
OPEN == "OPEN"
FILLED == "FILLED"
CANCELED == "CANCELED"
OrderStates == {PENDING_CREATE, OPEN, FILLED, CANCELED}

CONNECTED == "CONNECTED"
NOT_CONNECTED == "NOT_CONNECTED"

\* Exceptions, by what the code can tell apart.
NotFoundError == "Exception('No orders with the specified information exist')"
OtherError == "Exception('other')"
CancelledError == "asyncio.CancelledError"
TimeoutError == "asyncio.TimeoutError"
KeyError == "KeyError"
AttributeError == "AttributeError"
InvalidHashError == "Exception('Invalid transaction hash')"
RuntimeError == "RuntimeError('Invalid transaction hash')"
IndexError == "IndexError"
ValueError == "ValueError"
NoError == "none"

\* The operations of the coordinator that the model covers.
OPlaceOrder == "place_order"
OBatchOrderCreate == "batch_order_create"
OCancelOrder == "cancel_order"
OBatchOrderCancel == "batch_order_cancel"
OCancelAllOrders == "cancel_all_orders"
OCheckNetworkStatus == "check_network_status"
OGetLastTradedPrice == "get_last_traded_price"
OGetOrderBookSnapshot == "get_order_book_snapshot"
OGetAccountBalances == "get_account_balances"
OGetOrderStatusUpdate == "get_order_status_update"
OGetAllOrderFills == "get_all_order_fills"
OStart == "start"
OStop == "stop"
OLaunch == "launch"          \* in the lifecycle history: a loop task was created
NoOp == "none"

\* Gateway requests.
RMarkets == "get_clob_markets"
RPlaceOrder == "clob_place_order"
RCancelOrder == "clob_cancel_order"
RBatchModify == "clob_batch_order_modify"
RStatusUpdates == "get_clob_order_status_updates"
RPing == "ping_gateway"
RTicker == "get_clob_ticker"
ROrderBook == "get_clob_orderbook_snapshot"
RBalances == "get_balances"
Requests == {RMarkets, RPlaceOrder, RCancelOrder, RBatchModify, RStatusUpdates, RPing,
             RTicker, ROrderBook, RBalances}

\* self._locks: one asyncio.Lock per operation category.
LockNames == {"place_order", "place_orders", "cancel_order", "cancel_orders",
              "cancel_all_orders", "settle_market_funds", "settle_markets_funds",
              "settle_all_markets_funds"}

VARIABLES
    markets,        \* self._markets: NoneVal or the set of pairs of the last response
    market,         \* self._market: NoneVal or the pair selected from markets
    markets_info,   \* self._markets_info: the pairs indexed by name
    orders,         \* the engine's orders: client id, venue id, state, price, amount
    active_orders,  \* the tracker's active_orders: the orders it tracks
    locked,         \* per lock: the set holding the task that has it, {} when free
    waiters,        \* per lock: the tasks waiting for it, first come first
    pc,             \* per task: where its call is suspended
    op,             \* per task: the operation it runs
    arg,            \* per task: the orders passed to the call, in order
    log,            \* per task: locks taken and requests issued by the call so far
    resp,           \* per task: the last answer of the gateway to the call
    found,          \* per task: found_orders_to_cancel of batch_order_cancel
    timedout,       \* per task: the orders whose venue-id wait timed out in the gather
    orders_ids,     \* per task: the venue ids polled by cancel_all_orders
    outcome,        \* per task: how the call ended
    candidate_orders, \* per task: batch_order_create's list sent as orders_to_create
    resolved,       \* per task: the orders whose wait in the gather returned a venue id
    outer,          \* per task: the lifecycle call (start, stop) that runs the operation
    invoked,        \* the history of the lifecycle: start, stop as invoked, and launches
    tasks_update_markets, \* self._tasks.update_markets: {} for None, or the loop task held
    loops           \* the background tasks created to run _update_markets_loop

vars == <<markets, market, markets_info, orders, active_orders, locked, waiters,
          pc, op, arg, log, resp, found, timedout, resolved, orders_ids,
          candidate_orders, outcome, outer, invoked, tasks_update_markets, loops>>

bgVars == <<outer, invoked, tasks_update_markets, loops>>

marketVars == <<markets, market, markets_info>>
lockVars == <<locked, waiters>>
localVars == <<found, timedout, resolved, orders_ids, candidate_orders>>

\* ------------------------------------------------------------------ helpers
Range(s) == {s[i] : i \in DOMAIN s}
Min(a, b) == IF a <= b THEN a ELSE b

\* The sequences without repetition over a set, the empty one included.
RECURSIVE InjectiveSeqs(_)
InjectiveSeqs(S) ==
    {<<>>} \cup UNION {{<<x>> \o s : s \in InjectiveSeqs(S \ {x})} : x \in S}

\* ------------------------------------------------------------ records
\* An answer of the gateway to a request: the exception the awaited call raised,
\* or the fields of the response.
Answer(exc, txHash, id, ids, pong) ==
    [exc |-> exc, txHash |-> txHash, id |-> id, ids |-> ids, pong |-> pong]
NoAnswer == Answer(NoError, Missing, Missing, <<>>, FALSE)
Raised(exc) == Answer(exc, Missing, Missing, <<>>, FALSE)

\* PlaceOrderResult / CancelOrderResult / the tuples of the single-order calls:
\* client id, venue id, the key of misc_updates and the hash under it.
Result(cid, eid, meta, tx) == [cid |-> cid, eid |-> eid, meta |-> meta, tx |-> tx]
CreationHash == "creation_transaction_hash"
CancelationHash == "cancelation_transaction_hash"
EmptyMeta == "{}"

\* How a call ended: kind "return" with a value and a list of results, or kind
\* "raise" with the exception; kind "none" while the call runs.
Running == [kind |-> "none", exc |-> NoError, value |-> NoneVal, results |-> <<>>]
Returns(value, results) ==
    [kind |-> "return", exc |-> NoError, value |-> value, results |-> results]
Raises(exc) == [kind |-> "raise", exc |-> exc, value |-> NoneVal, results |-> <<>>]

Lock(l) == <<"lock", l>>
Request(r) == <<"request", r>>
Launch == <<"launch", "_update_markets_loop">>

\* A background task running _update_markets_loop: where it is suspended ("new"
\* before its first step, "fetch" in the request, "sleep" in the interval,
\* "ended" when the coroutine is over), whether cancel() was called on it and is
\* not delivered yet, and the exception that ended it.
LoopTask(p, c, e) == [pc |-> p, cancel |-> c, exc |-> e]

\* ------------------------------------------------------------ construction
\* An order of the engine.  The client id, the price and the amount are the
\* engine's; order i is the i-th order it created.
\* The tracker keys an order by the client id it had when the engine started
\* to track it.
TrackedUnder(i) == "c" \o ToString(i)

\* active_orders.get(cid) / fetch_tracked_order(cid): the tracked orders kept
\* under client id cid, none or one.
FetchTrackedOrder(act, cid) == {i \in act : TrackedUnder(i) = cid}

\* An order as the engine constructs it.  exchange_order_id_update_event is the
\* event get_exchange_order_id() waits on: an order constructed with a venue id
\* has it set, and assigning to exchange_order_id neither sets nor clears it.
Order(i, eid, state) ==
    [client_order_id |-> TrackedUnder(i), exchange_order_id |-> eid,
     exchange_order_id_update_event |-> (eid # NoneVal),
     current_state |-> state, price |-> 10 * i, amount |-> i]

\* The lifecycle points an order of the engine is found at: created and not yet
\* acknowledged, acknowledged, resting, filled, cancelled.  The venue id arrives
\* with the acknowledgement.
Lifecycle(i) ==
    {Order(i, NoneVal, PENDING_CREATE), Order(i, ToString(i), PENDING_CREATE),
     Order(i, ToString(i), OPEN), Order(i, ToString(i), FILLED),
     Order(i, ToString(i), CANCELED)}

\* The market registry at rest: as __init__ leaves it, or as a successful
\* refresh leaves it.
InitMarkets ==
    \/ /\ markets = [loaded |-> FALSE, pairs |-> {}]
       /\ market = NoneVal
       /\ markets_info = {}
    \/ /\ markets = [loaded |-> TRUE, pairs |-> {TradingPair}]
       /\ market = TradingPair
       /\ markets_info = {TradingPair}

\* As __init__ leaves the locks and the task handle, with no call in flight and
\* no background task.
AtRest ==
    /\ locked = [l \in LockNames |-> {}]
    /\ waiters = [l \in LockNames |-> <<>>]
    /\ pc = [t \in Tasks |-> "idle"]
    /\ op = [t \in Tasks |-> NoOp]
    /\ arg = [t \in Tasks |-> <<>>]
    /\ log = [t \in Tasks |-> <<>>]
    /\ resp = [t \in Tasks |-> NoAnswer]
    /\ found = [t \in Tasks |-> <<>>]
    /\ timedout = [t \in Tasks |-> {}]
    /\ resolved = [t \in Tasks |-> {}]
    /\ orders_ids = [t \in Tasks |-> <<>>]
    /\ candidate_orders = [t \in Tasks |-> <<>>]
    /\ outcome = [t \in Tasks |-> Running]
    /\ outer = [t \in Tasks |-> NoOp]
    /\ invoked = <<>>
    /\ tasks_update_markets = {}
    /\ loops = <<>>

\* The coordinator at rest: every lock free, no call in flight.  The orders and
\* what the tracker tracks are the engine's.
Init ==
    /\ InitMarkets
    /\ orders \in {f \in [Orders -> UNION {Lifecycle(i) : i \in Orders}] :
                     \A i \in Orders : f[i] \in Lifecycle(i)}
    /\ active_orders \in SUBSET Orders
    /\ AtRest

\* ------------------------------------------------------------ market registry
\* _check_markets_initialized
CheckMarketsInitialized == markets.loaded /\ markets.pairs # {}

\* The answers to get_clob_markets: an error, or a response with some markets.
MarketsAnswers ==
    {[exc |-> OtherError, pairs |-> {}]}
        \cup {[exc |-> NoError, pairs |-> P] : P \in SUBSET {TradingPair, OtherPair}}

\* _update_markets: the exception it ends with, NoError when it returns.  The
\* lookup of the configured pair raises when the response lacks it.
UpdateMarketsError(r) ==
    IF r.exc # NoError THEN r.exc
    ELSE IF TradingPair \notin r.pairs THEN KeyError
    ELSE NoError

\* _update_markets: what it leaves in the three fields.  The mapping is stored
\* before the configured pair is looked up; the index is rebuilt after it.
UpdateMarketsEffect(r) ==
    /\ markets' = IF r.exc = NoError THEN [loaded |-> TRUE, pairs |-> r.pairs] ELSE markets
    /\ market' = IF UpdateMarketsError(r) = NoError THEN TradingPair ELSE market
    /\ markets_info' = IF UpdateMarketsError(r) = NoError THEN r.pairs ELSE markets_info

\* ------------------------------------------------------------ operation locks
LockOf(o) ==
    CASE o = OPlaceOrder -> "place_order"
      [] o = OBatchOrderCreate -> "place_orders"
      [] o = OCancelOrder -> "cancel_order"
      [] o = OBatchOrderCancel -> "cancel_orders"
      [] o = OCancelAllOrders -> "cancel_all_orders"

\* The request a call issues first under its lock.
FirstRequest(o) ==
    CASE o = OPlaceOrder -> RPlaceOrder
      [] o = OBatchOrderCreate -> RBatchModify
      [] o = OCancelOrder -> RCancelOrder
      [] o = OBatchOrderCancel -> RBatchModify
      [] o = OCancelAllOrders -> RStatusUpdates

AfterLockPc(o) == IF o = OCancelAllOrders THEN "poll" ELSE "request"

\* "async with self._locks.<l>": a free lock nobody waits for is taken without
\* suspending and the first request goes out; otherwise the call queues.
LockFree_Always(l) == TRUE
LockFree_Barging(l) == locked[l] = {}

\* asyncio.Lock.acquire() returns at once when the lock is not held and no
\* task waits for it.
LockFree(l) == locked[l] = {} /\ waiters[l] = <<>>

AcquireOrWait(t, o, lg) ==
    LET l == LockOf(o) IN
    IF LockFree(l)
    THEN /\ locked' = [locked EXCEPT ![l] = {t}]
         /\ waiters' = waiters
         /\ pc' = [pc EXCEPT ![t] = AfterLockPc(o)]
         /\ log' = [log EXCEPT ![t] = lg \o <<Lock(l), Request(FirstRequest(o))>>]
    ELSE /\ locked' = locked
         /\ waiters' = [waiters EXCEPT ![l] = Append(@, t)]
         /\ pc' = [pc EXCEPT ![t] = "lock"]
         /\ log' = [log EXCEPT ![t] = lg]

Release_Kept(l) == UNCHANGED lockVars

\* The end of "async with": the lock is released, whether the body returned or
\* raised.
Release(l) ==
    /\ locked' = [locked EXCEPT ![l] = {}]
    /\ waiters' = waiters

\* A released lock goes to the task that has waited longest.
LockGranted(t) ==
    /\ pc[t] = "lock"
    /\ LET l == LockOf(op[t]) IN
        /\ locked[l] = {}
        /\ waiters[l] # <<>>
        /\ Head(waiters[l]) = t
        /\ locked' = [locked EXCEPT ![l] = {t}]
        /\ waiters' = [waiters EXCEPT ![l] = Tail(@)]
    /\ pc' = [pc EXCEPT ![t] = AfterLockPc(op[t])]
    /\ log' = [log EXCEPT ![t] = Append(Append(@, Lock(LockOf(op[t]))),
                                        Request(FirstRequest(op[t])))]
    /\ UNCHANGED <<bgVars, marketVars, orders, active_orders, op, arg, resp, localVars, outcome>>

\* The call of task t ends: r is the last answer it got, out how it ended.
Finish(t, r, out) ==
    /\ pc' = [pc EXCEPT ![t] = "done"]
    /\ resp' = [resp EXCEPT ![t] = r]
    /\ outcome' = [outcome EXCEPT ![t] = out]

CanCall(t) == pc[t] = "idle"

\* A call starts.
Start(t, o, a) ==
    /\ op' = [op EXCEPT ![t] = o]
    /\ arg' = [arg EXCEPT ![t] = a]
    /\ resp' = [resp EXCEPT ![t] = NoAnswer]

ResetLocals(t) ==
    /\ found' = [found EXCEPT ![t] = <<>>]
    /\ timedout' = [timedout EXCEPT ![t] = {}]
    /\ resolved' = [resolved EXCEPT ![t] = {}]
    /\ orders_ids' = [orders_ids EXCEPT ![t] = <<>>]
    /\ candidate_orders' = [candidate_orders EXCEPT ![t] = <<>>]

\* ------------------------------------------------------- check_network_status
PingAnswers ==
    {Raised(OtherError), Raised(TimeoutError), Raised(KeyError), Raised(CancelledError)}
        \cup {Answer(NoError, Missing, Missing, <<>>, b) : b \in BOOLEAN}

CheckNetworkStatusOutcome_Reraise(r) ==
    IF r.exc # NoError THEN Raises(r.exc) ELSE Returns(CONNECTED, <<>>)

\* check_network_status after the ping: the answer of ping_gateway() is not
\* read; only an exception makes a difference.
CheckNetworkStatusOutcome(r) ==
    IF r.exc = CancelledError THEN Raises(CancelledError)
    ELSE IF r.exc # NoError THEN Returns(NOT_CONNECTED, <<>>)
    ELSE Returns(CONNECTED, <<>>)

Call_check_network_status(t) ==
    /\ CanCall(t)
    /\ Start(t, OCheckNetworkStatus, <<>>)
    /\ pc' = [pc EXCEPT ![t] = "ping"]
    /\ log' = [log EXCEPT ![t] = <<Request(RPing)>>]
    /\ outcome' = [outcome EXCEPT ![t] = Running]
    /\ ResetLocals(t)
    /\ UNCHANGED <<bgVars, marketVars, orders, active_orders, lockVars>>

PingResponse(t) ==
    /\ pc[t] = "ping"
    /\ \E r \in PingAnswers : Finish(t, r, CheckNetworkStatusOutcome(r))
    /\ UNCHANGED <<bgVars, marketVars, orders, active_orders, lockVars, op, arg, log, localVars>>


\* ------------------------------------------------------------ gateway answers
HashValues == {Missing, NoneVal, EmptyHash} \cup TxHashes

\* clob_place_order: an error, or a response with or without txHash and id.
PlaceAnswers ==
    {Raised(OtherError)}
        \cup {Answer(NoError, h, id, <<>>, FALSE) :
                h \in HashValues, id \in VenueIds \cup {Missing}}

\* clob_cancel_order: the venue's "order not found" error, another error, or a
\* response with or without txHash.
CancelAnswers ==
    {Raised(NotFoundError), Raised(OtherError)}
        \cup {Answer(NoError, h, Missing, <<>>, FALSE) : h \in HashValues}

\* The lists of venue ids a response can carry.
IdLists == InjectiveSeqs(VenueIds)

\* clob_batch_order_modify of a create: an error, or a response with or without
\* txHash, whose ids may be fewer or more than the orders sent.
BatchCreateAnswers ==
    {Raised(OtherError)}
        \cup {Answer(NoError, h, Missing, ids, FALSE) : h \in HashValues, ids \in IdLists}

\* clob_batch_order_modify of a cancel: only txHash is read.
BatchCancelAnswers ==
    {Raised(OtherError)} \cup {Answer(NoError, h, Missing, <<>>, FALSE) : h \in HashValues}

\* get_clob_order_status_updates of the account: an error, or the open orders.
PollAnswers ==
    {Raised(OtherError)} \cup {Answer(NoError, Missing, Missing, ids, FALSE) : ids \in IdLists}

\* ------------------------------------------------------------ place_order
PlaceOrderError_HashUnchecked(r) ==
    IF r.exc # NoError THEN r.exc
    ELSE IF r.txHash = Missing THEN KeyError
    ELSE IF r.id = Missing THEN KeyError
    ELSE NoError

\* The exception place_order ends with on answer r, NoError when it returns.
PlaceOrderError(r) ==
    IF r.exc # NoError THEN r.exc
    ELSE IF r.txHash = Missing THEN KeyError
    ELSE IF r.id = Missing THEN KeyError
    ELSE IF r.txHash \in {NoneVal, EmptyHash} THEN InvalidHashError
    ELSE NoError

PlaceOrderVenueId_Kept(ord, r) == ord.exchange_order_id
PlaceOrderVenueId_AfterHashCheck(ord, r) ==
    IF PlaceOrderError(r) = NoError THEN r.id ELSE ord.exchange_order_id

\* order.exchange_order_id after place_order: the id of the response is stored
\* as soon as both fields were read, before the hash is validated.
PlaceOrderVenueId(ord, r) ==
    IF r.exc = NoError /\ r.txHash # Missing /\ r.id # Missing
    THEN r.id
    ELSE ord.exchange_order_id

\* What place_order gives its caller: (order.exchange_order_id, misc_updates).
PlaceOrderOutcome(ord, r) ==
    IF PlaceOrderError(r) # NoError
    THEN Raises(PlaceOrderError(r))
    ELSE Returns(NoneVal,
                 <<Result(NoneVal, PlaceOrderVenueId(ord, r), CreationHash, r.txHash)>>)

AfterMarkets_place_order(t, a, lg) ==
    /\ AcquireOrWait(t, OPlaceOrder, lg)
    /\ outcome' = [outcome EXCEPT ![t] = Running]
    /\ ResetLocals(t)
    /\ UNCHANGED orders

PlaceOrderResponse(t) ==
    /\ pc[t] = "request"
    /\ op[t] = OPlaceOrder
    /\ \E r \in PlaceAnswers :
        LET o == arg[t][1] IN
        /\ orders' = [orders EXCEPT ![o].exchange_order_id = PlaceOrderVenueId(orders[o], r)]
        /\ Finish(t, r, PlaceOrderOutcome(orders[o], r))
    /\ Release(LockOf(OPlaceOrder))
    /\ UNCHANGED <<bgVars, marketVars, active_orders, op, arg, log, localVars>>

\* ------------------------------------------------------------ batch_order_create
\* generate_hash(order) of kujira_helpers: a deterministic hash of the order's
\* attributes.
GenerateHash(ord) == "h" \o ToString(ord.price) \o "x" \o ToString(ord.amount)

\* The orders after the loop that builds the candidates: every input order gets
\* the generated client id.
WithGeneratedIds(ords, a) ==
    [i \in DOMAIN ords |->
        IF i \in Range(a)
        THEN [ords[i] EXCEPT !.client_order_id = GenerateHash(ords[i])]
        ELSE ords[i]]

BatchOrderCreateError_HashUnchecked(r) ==
    IF r.exc # NoError THEN r.exc
    ELSE IF r.txHash = Missing THEN KeyError
    ELSE NoError

\* The exception batch_order_create ends with on answer r, NoError when it
\* returns.
BatchOrderCreateError(r) ==
    IF r.exc # NoError THEN r.exc
    ELSE IF r.txHash = Missing THEN KeyError
    ELSE IF r.txHash \in {NoneVal, EmptyHash} THEN RuntimeError
    ELSE NoError

\* zip(orders_to_create, response["ids"]): as many pairs as the shorter holds.
ZipLen(a, ids) == Min(Len(a), Len(ids))

\* The PlaceOrderResult list: one per zipped pair.
PlaceOrderResults(ords, a, r) ==
    [k \in 1..ZipLen(a, r.ids) |->
        Result(ords[a[k]].client_order_id, r.ids[k], CreationHash, r.txHash)]

BatchOrderCreateOutcome(ords, a, r) ==
    IF BatchOrderCreateError(r) # NoError
    THEN Raises(BatchOrderCreateError(r))
    ELSE Returns(NoneVal, PlaceOrderResults(ords, a, r))

\* The orders after the result loop: the venue id of every zipped input order
\* is reset.
AfterBatchOrderCreate(ords, a, r) ==
    IF BatchOrderCreateError(r) # NoError
    THEN ords
    ELSE [i \in DOMAIN ords |->
            IF \E k \in 1..ZipLen(a, r.ids) : a[k] = i
            THEN [ords[i] EXCEPT !.exchange_order_id = NoneVal]
            ELSE ords[i]]

\* What the request carries of an order, and the entry the list starts with:
\* "candidate_orders = [in_flight_order]" puts the imported module
\* in_flight_order first, which is no order.
CandidateOrder(ord) ==
    [kind |-> "InFlightOrder", client_order_id |-> ord.client_order_id, amount |-> ord.amount]
InFlightOrderModule ==
    [kind |-> "module", client_order_id |-> NoneVal, amount |-> 0]

\* candidate_orders after the loop over orders_to_create.
CandidateOrders(ords, a) ==
    <<InFlightOrderModule>> \o [k \in 1..Len(a) |-> CandidateOrder(ords[a[k]])]

\* The "orders_to_cancel" of batch_order_create's request.
OrdersToCancelOfCreate == <<>>

AfterMarkets_batch_order_create(t, a, lg) ==
    /\ orders' = WithGeneratedIds(orders, a)
    /\ candidate_orders' = [candidate_orders EXCEPT ![t] = CandidateOrders(orders', a)]
    /\ AcquireOrWait(t, OBatchOrderCreate, lg)
    /\ outcome' = [outcome EXCEPT ![t] = Running]
    /\ found' = [found EXCEPT ![t] = <<>>]
    /\ timedout' = [timedout EXCEPT ![t] = {}]
    /\ resolved' = [resolved EXCEPT ![t] = {}]
    /\ orders_ids' = [orders_ids EXCEPT ![t] = <<>>]

BatchCreateResponse(t) ==
    /\ pc[t] = "request"
    /\ op[t] = OBatchOrderCreate
    /\ \E r \in BatchCreateAnswers :
        /\ orders' = AfterBatchOrderCreate(orders, arg[t], r)
        /\ Finish(t, r, BatchOrderCreateOutcome(orders, arg[t], r))
    /\ Release(LockOf(OBatchOrderCreate))
    /\ UNCHANGED <<bgVars, marketVars, active_orders, op, arg, log, localVars>>


\* ------------------------------------------------------------ cancel_order
CancelOrderProceeds_AnyState(ords, act, o) ==
    FetchTrackedOrder(act, ords[o].client_order_id) # {}

\* active_orders.get(client_order_id) is there and not CANCELED: the call goes
\* to the venue.  The tracker holds the engine's order object itself.
CancelOrderProceeds(ords, act, o) ==
    \E i \in FetchTrackedOrder(act, ords[o].client_order_id) :
        ords[i].current_state # CANCELED

IsOrderNotFound_Never(exc) == FALSE

\* "'No orders with the specified information exist' in str(exception.args)"
IsOrderNotFound(exc) == exc = NotFoundError

CancelOrderTryError_HashUnchecked(r) ==
    IF r.exc # NoError THEN r.exc
    ELSE IF r.txHash = Missing THEN KeyError
    ELSE NoError

\* The exception raised inside the try block on answer r, NoError when the
\* block completes.
CancelOrderTryError(r) ==
    IF r.exc # NoError THEN r.exc
    ELSE IF r.txHash = Missing THEN KeyError
    ELSE IF r.txHash \in {NoneVal, EmptyHash} THEN InvalidHashError
    ELSE NoError

\* The exception cancel_order ends with: the except block turns the venue's
\* "order not found" into success and re-raises every other exception.
CancelOrderError(r) ==
    IF IsOrderNotFound(CancelOrderTryError(r)) THEN NoError ELSE CancelOrderTryError(r)

\* transaction_hash after the try/except.
CancelOrderHash(r) ==
    IF IsOrderNotFound(CancelOrderTryError(r)) THEN ZeroHash ELSE r.txHash

CancelOrderOutcome(r) ==
    IF CancelOrderError(r) # NoError
    THEN Raises(CancelOrderError(r))
    ELSE Returns("True", <<Result(NoneVal, NoneVal, CancelationHash, CancelOrderHash(r))>>)

\* order.current_state after the call.
CancelOrderState(ord, r) ==
    IF CancelOrderError(r) = NoError THEN CANCELED ELSE ord.current_state

\* The early return of an untracked or already CANCELED order.
CancelOrderNoOp == Returns("True", <<Result(NoneVal, NoneVal, EmptyMeta, NoneVal)>>)

\* "await order.get_exchange_order_id()" returns at once when the id is known,
\* and also when it is None again but the order's event is set (the id was
\* reset by batch_order_create): the call goes on to the lock.  It suspends
\* otherwise.
AfterMarkets_cancel_order(t, a, lg) ==
    /\ IF \/ orders[a[1]].exchange_order_id # NoneVal
          \/ orders[a[1]].exchange_order_id_update_event
       THEN AcquireOrWait(t, OCancelOrder, lg)
       ELSE /\ pc' = [pc EXCEPT ![t] = "wait_id"]
            /\ log' = [log EXCEPT ![t] = lg]
            /\ UNCHANGED lockVars
    /\ outcome' = [outcome EXCEPT ![t] = Running]
    /\ ResetLocals(t)
    /\ UNCHANGED orders

\* get_exchange_order_id(): the wait ends when the order has its venue id.
ExchangeIdKnown(t) ==
    /\ pc[t] = "wait_id"
    /\ orders[arg[t][1]].exchange_order_id # NoneVal
    /\ AcquireOrWait(t, OCancelOrder, log[t])
    /\ UNCHANGED <<bgVars, marketVars, orders, active_orders, op, arg, resp, localVars, outcome>>

\* get_exchange_order_id(): the wait is bounded; its timeout ends the call.
ExchangeIdTimeout(t) ==
    /\ pc[t] = "wait_id"
    /\ orders[arg[t][1]].exchange_order_id = NoneVal
    /\ Finish(t, resp[t], Raises(TimeoutError))
    /\ UNCHANGED <<bgVars, marketVars, orders, active_orders, lockVars, op, arg, log, localVars>>

CancelOrderResponse(t) ==
    /\ pc[t] = "request"
    /\ op[t] = OCancelOrder
    /\ \E r \in CancelAnswers :
        LET o == arg[t][1] IN
        /\ orders' = [orders EXCEPT ![o].current_state = CancelOrderState(orders[o], r)]
        /\ Finish(t, r, CancelOrderOutcome(r))
    /\ Release(LockOf(OCancelOrder))
    /\ UNCHANGED <<bgVars, marketVars, active_orders, op, arg, log, localVars>>

\* ------------------------------------------------------------ batch_order_cancel
\* fetch_tracked_order gives None for an order the tracker does not hold, and
\* building the waits on it fails.
AllTracked(ords, act, a) ==
    \A k \in DOMAIN a : FetchTrackedOrder(act, ords[a[k]].client_order_id) # {}

FoundOrdersToCancel_All(a, out) == a

\* found_orders_to_cancel: the requested orders whose wait did not time out.
FoundOrdersToCancel(a, out) ==
    LET Keep(o) == o \notin out IN SelectSeq(a, Keep)

\* The exception batch_order_cancel ends with on answer r, NoError when it
\* returns.
BatchOrderCancelError(r) ==
    IF r.exc # NoError THEN r.exc
    ELSE IF r.txHash = Missing THEN KeyError
    ELSE IF r.txHash \in {NoneVal, EmptyHash} THEN RuntimeError
    ELSE NoError

CancelOrderResults_OnlyResolved(ords, a, r) ==
    LET HasId(o) == ords[o].exchange_order_id # NoneVal
        f == SelectSeq(a, HasId)
    IN [k \in 1..Len(f) |->
            Result(ords[f[k]].client_order_id, NoneVal, CancelationHash, r.txHash)]

\* The CancelOrderResult list: one per requested order.
CancelOrderResults(ords, a, r) ==
    [k \in 1..Len(a) |->
        Result(ords[a[k]].client_order_id, NoneVal, CancelationHash, r.txHash)]

BatchOrderCancelOutcome(ords, a, r) ==
    IF BatchOrderCancelError(r) # NoError
    THEN Raises(BatchOrderCancelError(r))
    ELSE Returns(NoneVal, CancelOrderResults(ords, a, r))

\* The gather of the venue-id waits suspends the call, unless there is nothing
\* to wait for: the gather of an empty list is over at once, and the call goes
\* on to the lock in the same step.
AfterMarkets_batch_order_cancel(t, a, lg) ==
    /\ IF ~AllTracked(orders, active_orders, a)
       THEN /\ pc' = [pc EXCEPT ![t] = "done"]
            /\ outcome' = [outcome EXCEPT ![t] = Raises(AttributeError)]
            /\ log' = [log EXCEPT ![t] = lg]
            /\ UNCHANGED lockVars
       ELSE IF a = <<>>
       THEN /\ AcquireOrWait(t, OBatchOrderCancel, lg)
            /\ outcome' = [outcome EXCEPT ![t] = Running]
       ELSE /\ pc' = [pc EXCEPT ![t] = "gather"]
            /\ outcome' = [outcome EXCEPT ![t] = Running]
            /\ log' = [log EXCEPT ![t] = lg]
            /\ UNCHANGED lockVars
    /\ ResetLocals(t)
    /\ UNCHANGED orders

\* The waits of the gather run, one after the other with nothing in between, at
\* the loop's next turn: the wait of an order that has its venue id, or whose
\* event is set, returns at once; the wait of an order with neither starts to
\* wait for the event.
GatherWaits(t) ==
    /\ pc[t] = "gather"
    /\ pc' = [pc EXCEPT ![t] = "gathering"]
    /\ resolved' = [resolved EXCEPT ![t] =
                        {o \in Range(arg[t]) : \/ orders[o].exchange_order_id # NoneVal
                                               \/ orders[o].exchange_order_id_update_event}]
    /\ UNCHANGED <<bgVars, marketVars, orders, active_orders, lockVars, op, arg, log, resp,
                   found, timedout, orders_ids, candidate_orders, outcome>>

GatherTimeout_Never(t) == pc[t] = "gathering" /\ FALSE /\ UNCHANGED vars

\* One wait of the gather times out: it began while its order had no venue id.
\* An id assigned to the order since then sets no event, and does not end it.
GatherTimeout(t) ==
    /\ pc[t] = "gathering"
    /\ \E o \in Range(arg[t]) \ (resolved[t] \cup timedout[t]) :
        timedout' = [timedout EXCEPT ![t] = @ \cup {o}]
    /\ UNCHANGED <<bgVars, marketVars, orders, active_orders, lockVars, pc, op, arg, log, resp,
                   found, resolved, orders_ids, candidate_orders, outcome>>

\* Every wait of the gather has ended, with the id it returned or by its
\* timeout; what an order's venue id has become since does not count.
GatherDone(t) ==
    /\ pc[t] = "gathering"
    /\ Range(arg[t]) \subseteq resolved[t] \cup timedout[t]
    /\ found' = [found EXCEPT ![t] = FoundOrdersToCancel(arg[t], timedout[t])]
    /\ AcquireOrWait(t, OBatchOrderCancel, log[t])
    /\ UNCHANGED <<bgVars, marketVars, orders, active_orders, op, arg, resp, timedout, resolved,
                   orders_ids, candidate_orders, outcome>>

AfterBatchOrderCancel_Canceled(ords, a, r) ==
    [i \in DOMAIN ords |->
        IF BatchOrderCancelError(r) = NoError /\ i \in Range(a)
        THEN [ords[i] EXCEPT !.current_state = CANCELED]
        ELSE ords[i]]

\* The orders after batch_order_cancel: the result loop reads the orders and
\* assigns nothing to them.
AfterBatchOrderCancel(ords, a, r) == ords

BatchCancelResponse(t) ==
    /\ pc[t] = "request"
    /\ op[t] = OBatchOrderCancel
    /\ \E r \in BatchCancelAnswers :
        /\ orders' = AfterBatchOrderCancel(orders, arg[t], r)
        /\ Finish(t, r, BatchOrderCancelOutcome(orders, arg[t], r))
    /\ Release(LockOf(OBatchOrderCancel))
    /\ UNCHANGED <<bgVars, marketVars, active_orders, op, arg, log, localVars>>

\* ------------------------------------------------------------ cancel_all_orders
\* The requests cancel_all_orders issues once the poll has answered with ids:
\* the batch request goes out whatever the list holds.
RequestsAfterPoll(ids) == <<Request(RBatchModify)>>

\* The exception cancel_all_orders ends with on answer r to its batch request,
\* NoError when it returns.  An invalid hash counts only with ids to cancel.
CancelAllOrdersError(ids, r) ==
    IF r.exc # NoError THEN r.exc
    ELSE IF r.txHash = Missing THEN KeyError
    ELSE IF r.txHash \in {NoneVal, EmptyHash} /\ ids # <<>> THEN RuntimeError
    ELSE NoError

CancelAllOrdersOutcome(ids, r) ==
    IF CancelAllOrdersError(ids, r) # NoError
    THEN Raises(CancelAllOrdersError(ids, r))
    ELSE Returns(NoneVal, <<>>)

AfterMarkets_cancel_all_orders(t, a, lg) ==
    /\ AcquireOrWait(t, OCancelAllOrders, lg)
    /\ outcome' = [outcome EXCEPT ![t] = Running]
    /\ ResetLocals(t)
    /\ UNCHANGED orders

LaunchNeeded_Always(h) == TRUE
LaunchNeeded_OrEnded(h) == h = {} \/ \E k \in h : loops[k].pc = "ended"

\* "self._tasks.update_markets or safe_ensure_future(...)": a task is created
\* only when the handle holds none.
LaunchNeeded(h) == h = {}

StartGoesOn_Always(out) == TRUE

\* start() goes on to the launch when its cancel_all_orders() returned; what
\* cancel_all_orders() raises ends start().
StartGoesOn(out) == out.kind = "return"

\* What the caller of cancel_all_orders does when it is over, r being the last
\* answer it got and out how it ended.  The engine and stop() do nothing more;
\* start() launches the loop and keeps the task, without suspending in
\* between.  Under start() and stop() the frame of cancel_all_orders is gone
\* with its locals; the engine's call keeps them for inspection.
AfterCancelAllOrders(t, r, out) ==
    /\ pc' = [pc EXCEPT ![t] = "done"]
    /\ outcome' = [outcome EXCEPT ![t] = out]
    /\ resp' = [resp EXCEPT ![t] = IF outer[t] = NoOp THEN r ELSE NoAnswer]
    /\ orders_ids' = [orders_ids EXCEPT ![t] = IF outer[t] = NoOp THEN @ ELSE <<>>]
    /\ IF outer[t] = OStart /\ StartGoesOn(out) /\ LaunchNeeded(tasks_update_markets)
       THEN /\ loops' = Append(loops, LoopTask("new", FALSE, NoError))
            /\ tasks_update_markets' = {Len(loops) + 1}
            /\ log' = [log EXCEPT ![t] = Append(@, Launch)]
            /\ invoked' = Append(invoked, OLaunch)
       ELSE UNCHANGED <<loops, tasks_update_markets, log, invoked>>
    /\ UNCHANGED outer

\* The poll answers: an error ends the call, a list of orders is followed by
\* the batch request.
PollResponse(t) ==
    /\ pc[t] = "poll"
    /\ \E r \in PollAnswers :
        IF r.exc # NoError
        THEN /\ AfterCancelAllOrders(t, r, Raises(r.exc))
             /\ Release(LockOf(OCancelAllOrders))
        ELSE /\ orders_ids' = [orders_ids EXCEPT ![t] = r.ids]
             /\ log' = [log EXCEPT ![t] = @ \o RequestsAfterPoll(r.ids)]
             /\ pc' = [pc EXCEPT ![t] = "request"]
             /\ resp' = [resp EXCEPT ![t] = r]
             /\ UNCHANGED <<bgVars, lockVars, outcome>>
    /\ UNCHANGED <<marketVars, orders, active_orders, op, arg, found, timedout, resolved,
                   candidate_orders>>

CancelAllResponse(t) ==
    /\ pc[t] = "request"
    /\ op[t] = OCancelAllOrders
    /\ \E r \in BatchCancelAnswers :
        AfterCancelAllOrders(t, r, CancelAllOrdersOutcome(orders_ids[t], r))
    /\ Release(LockOf(OCancelAllOrders))
    /\ UNCHANGED <<marketVars, orders, active_orders, op, arg, found, timedout, resolved,
                   candidate_orders>>

\* ------------------------------------------------------------ calls
\* What follows "self._check_markets_initialized() or await self._update_markets()".
AfterMarkets(t, o, a, lg) ==
    CASE o = OPlaceOrder -> AfterMarkets_place_order(t, a, lg)
      [] o = OBatchOrderCreate -> AfterMarkets_batch_order_create(t, a, lg)
      [] o = OCancelOrder -> AfterMarkets_cancel_order(t, a, lg)
      [] o = OBatchOrderCancel -> AfterMarkets_batch_order_cancel(t, a, lg)
      [] o = OCancelAllOrders -> AfterMarkets_cancel_all_orders(t, a, lg)

\* "self._check_markets_initialized() or await self._update_markets()": with
\* markets cached the call goes on without suspending, otherwise it refreshes.
EnsureMarkets(t, o, a) ==
    IF CheckMarketsInitialized
    THEN AfterMarkets(t, o, a, <<>>)
    ELSE /\ pc' = [pc EXCEPT ![t] = "markets"]
         /\ log' = [log EXCEPT ![t] = <<Request(RMarkets)>>]
         /\ outcome' = [outcome EXCEPT ![t] = Running]
         /\ ResetLocals(t)
         /\ UNCHANGED <<lockVars, orders>>

\* get_clob_markets answers the refresh of a call that found no markets.
MarketsResponse(t) ==
    /\ pc[t] = "markets"
    /\ \E r \in MarketsAnswers :
        /\ UpdateMarketsEffect(r)
        /\ IF UpdateMarketsError(r) # NoError
           THEN /\ pc' = [pc EXCEPT ![t] = "done"]
                /\ outcome' = [outcome EXCEPT ![t] = Raises(UpdateMarketsError(r))]
                /\ UNCHANGED <<lockVars, orders, log, localVars>>
           ELSE AfterMarkets(t, op[t], arg[t], log[t])
    /\ UNCHANGED <<bgVars, active_orders, op, arg, resp>>

Call_place_order(t) ==
    /\ CanCall(t)
    /\ \E o \in Orders :
        /\ Start(t, OPlaceOrder, <<o>>)
        /\ EnsureMarkets(t, OPlaceOrder, <<o>>)
    /\ UNCHANGED <<bgVars, marketVars, active_orders>>

Call_batch_order_create(t) ==
    /\ CanCall(t)
    /\ \E a \in InjectiveSeqs(Orders) :
        /\ Start(t, OBatchOrderCreate, a)
        /\ EnsureMarkets(t, OBatchOrderCreate, a)
    /\ UNCHANGED <<bgVars, marketVars, active_orders>>

Call_cancel_order(t) ==
    /\ CanCall(t)
    /\ \E o \in Orders :
        /\ Start(t, OCancelOrder, <<o>>)
        /\ IF CancelOrderProceeds(orders, active_orders, o)
           THEN EnsureMarkets(t, OCancelOrder, <<o>>)
           ELSE /\ pc' = [pc EXCEPT ![t] = "done"]
                /\ log' = [log EXCEPT ![t] = <<>>]
                /\ outcome' = [outcome EXCEPT ![t] = CancelOrderNoOp]
                /\ ResetLocals(t)
                /\ UNCHANGED <<lockVars, orders>>
    /\ UNCHANGED <<bgVars, marketVars, active_orders>>

Call_batch_order_cancel(t) ==
    /\ CanCall(t)
    /\ \E a \in InjectiveSeqs(Orders) :
        /\ Start(t, OBatchOrderCancel, a)
        /\ EnsureMarkets(t, OBatchOrderCancel, a)
    /\ UNCHANGED <<bgVars, marketVars, active_orders>>

Call_cancel_all_orders(t) ==
    /\ CanCall(t)
    /\ Start(t, OCancelAllOrders, <<>>)
    /\ EnsureMarkets(t, OCancelAllOrders, <<>>)
    /\ UNCHANGED <<bgVars, marketVars, active_orders>>

\* ------------------------------------------------------------ prices and balances
\* get_last_traded_price, get_order_book_snapshot and get_account_balances send
\* their request at once: none of them looks at the cached markets first.
SendQuery(t, o, r) ==
    /\ Start(t, o, <<>>)
    /\ pc' = [pc EXCEPT ![t] = "query"]
    /\ log' = [log EXCEPT ![t] = <<Request(r)>>]
    /\ outcome' = [outcome EXCEPT ![t] = Running]
    /\ ResetLocals(t)
    /\ UNCHANGED <<bgVars, marketVars, orders, active_orders, lockVars>>

Call_get_last_traded_price(t) ==
    /\ CanCall(t)
    /\ SendQuery(t, OGetLastTradedPrice, RTicker)

Call_get_order_book_snapshot(t) ==
    /\ CanCall(t)
    /\ SendQuery(t, OGetOrderBookSnapshot, ROrderBook)

Call_get_account_balances(t) ==
    /\ CanCall(t)
    /\ SendQuery(t, OGetAccountBalances, RBalances)

\* get_clob_ticker answers like get_clob_markets: an error, or the tickers of
\* some markets.
TickerAnswers == MarketsAnswers

\* get_last_traded_price: the ticker of the configured pair is looked up in the
\* response.
LastTradedPriceOutcome(r) ==
    IF r.exc # NoError THEN Raises(r.exc)
    ELSE IF TradingPair \notin r.pairs THEN Raises(KeyError)
    ELSE Returns("price", <<>>)

TickerResponse(t) ==
    /\ pc[t] = "query"
    /\ op[t] = OGetLastTradedPrice
    /\ \E r \in TickerAnswers : Finish(t, Raised(r.exc), LastTradedPriceOutcome(r))
    /\ UNCHANGED <<bgVars, marketVars, orders, active_orders, lockVars, op, arg, log, localVars>>

\* get_clob_orderbook_snapshot and get_balances: an error, or a response that
\* is converted as it is.
QueryAnswers == {Raised(OtherError), NoAnswer}

OrderBookSnapshotOutcome(r) ==
    IF r.exc # NoError THEN Raises(r.exc) ELSE Returns("snapshot", <<>>)

OrderBookResponse(t) ==
    /\ pc[t] = "query"
    /\ op[t] = OGetOrderBookSnapshot
    /\ \E r \in QueryAnswers : Finish(t, r, OrderBookSnapshotOutcome(r))
    /\ UNCHANGED <<bgVars, marketVars, orders, active_orders, lockVars, op, arg, log, localVars>>

AccountBalancesOutcome(r) ==
    IF r.exc # NoError THEN Raises(r.exc) ELSE Returns("balances", <<>>)

BalancesResponse(t) ==
    /\ pc[t] = "query"
    /\ op[t] = OGetAccountBalances
    /\ \E r \in QueryAnswers : Finish(t, r, AccountBalancesOutcome(r))
    /\ UNCHANGED <<bgVars, marketVars, orders, active_orders, lockVars, op, arg, log, localVars>>

\* ------------------------------------------------------------ order status
\* The state names of the venue, one of them outside the table of
\* kujira_types.OrderStatus.
VenueStates == {"OPEN", "CANCELLED", "FILLED", "CREATION_PENDING", "EXPIRED"}
Unmapped == "<unmapped>"

\* KujiraOrderStatus.to_hummingbot(KujiraOrderStatus.from_name(name)): the fixed
\* table from the venue's names to OrderState; a name outside it fails.
ToHummingbot(name) ==
    CASE name = "OPEN" -> OPEN
      [] name = "CANCELLED" -> CANCELED
      [] name = "FILLED" -> FILLED
      [] name = "CREATION_PENDING" -> PENDING_CREATE
      [] OTHER -> Unmapped

\* get_clob_order_status_updates of one order: an error, or a response whose
\* "orders" is empty, or starts with a null record or with the record of the
\* order, of which the state is read.
StatusAnswers ==
    {Raised(OtherError)}
        \cup {Answer(NoError, Missing, Missing, l, FALSE) :
                l \in {<<>>, <<NoneVal>>} \cup {<<n>> : n \in VenueStates}}

\* "order = DotMap(response)["orders"][0]" followed by "if order:".
HasRecord(r) == r.ids # <<>> /\ r.ids[1] # NoneVal

\* The exception raised between the response and the status: the index into
\* an empty list, the translation of an unknown name.
StatusPollError(r) ==
    IF r.exc # NoError THEN r.exc
    ELSE IF r.ids = <<>> THEN IndexError
    ELSE IF HasRecord(r) /\ ToHummingbot(r.ids[1]) = Unmapped THEN ValueError
    ELSE NoError

\* order_status: mapped from the record, or the local state without a record.
OrderStatus(ord, r) ==
    IF HasRecord(r) THEN ToHummingbot(r.ids[1]) ELSE ord.current_state

StatusMeta == "{creation_transaction_hash, cancelation_transaction_hash}"

\* The OrderUpdate built from the order: new state, client id, venue id.
OrderUpdate(state, ord) ==
    Returns(state, <<Result(ord.client_order_id, ord.exchange_order_id, StatusMeta, NoneVal)>>)

StatusPolls_Tracked(ords, act, o) ==
    FetchTrackedOrder(act, ords[o].client_order_id) # {}

\* get_order_status_update polls for an order the tracker holds that is not
\* CANCELED.
StatusPolls(ords, act, o) ==
    \E i \in FetchTrackedOrder(act, ords[o].client_order_id) :
        ords[i].current_state # CANCELED

StatusUpdateOutcome(ord, r) ==
    IF StatusPollError(r) # NoError
    THEN Raises(StatusPollError(r))
    ELSE OrderUpdate(OrderStatus(ord, r), ord)

\* get_order_status_update up to its first suspension: the wait for the venue
\* id when the order has none, the request otherwise; no_update at once when
\* there is nothing to poll.
Call_get_order_status_update(t) ==
    /\ CanCall(t)
    /\ \E o \in Orders :
        /\ Start(t, OGetOrderStatusUpdate, <<o>>)
        /\ IF ~StatusPolls(orders, active_orders, o)
           THEN /\ pc' = [pc EXCEPT ![t] = "done"]
                /\ log' = [log EXCEPT ![t] = <<>>]
                /\ outcome' = [outcome EXCEPT ![t] =
                                    OrderUpdate(orders[o].current_state, orders[o])]
           ELSE /\ outcome' = [outcome EXCEPT ![t] = Running]
                /\ IF \/ orders[o].exchange_order_id # NoneVal
                      \/ orders[o].exchange_order_id_update_event
                   THEN /\ pc' = [pc EXCEPT ![t] = "status"]
                        /\ log' = [log EXCEPT ![t] = <<Request(RStatusUpdates)>>]
                   ELSE /\ pc' = [pc EXCEPT ![t] = "wait_id"]
                        /\ log' = [log EXCEPT ![t] = <<>>]
    /\ ResetLocals(t)
    /\ UNCHANGED <<bgVars, marketVars, orders, active_orders, lockVars>>

StatusResponse(t) ==
    /\ pc[t] = "status"
    /\ op[t] = OGetOrderStatusUpdate
    /\ \E r \in StatusAnswers : Finish(t, r, StatusUpdateOutcome(orders[arg[t][1]], r))
    /\ UNCHANGED <<bgVars, marketVars, orders, active_orders, lockVars, op, arg, log, localVars>>

\* ------------------------------------------------------------ order fills
FillsPoll_AnyId(ords, act, o) ==
    \E i \in FetchTrackedOrder(act, ords[o].client_order_id) :
        ords[i].current_state # CANCELED

\* get_all_order_fills polls for an order that has a venue id, that the tracker
\* holds and that is not CANCELED.
FillsPoll(ords, act, o) ==
    /\ ords[o].exchange_order_id # NoneVal
    /\ \E i \in FetchTrackedOrder(act, ords[o].client_order_id) :
        ords[i].current_state # CANCELED

\* "if order and order_status == OrderState.FILLED"
IsFilled(ord, r) == HasRecord(r) /\ OrderStatus(ord, r) = FILLED

\* The TradeUpdate of a full fill: price and amounts are the order's.
TradeUpdate(ord) ==
    [cid |-> ord.client_order_id, eid |-> ord.exchange_order_id,
     fill_price |-> ord.price, fill_base_amount |-> ord.amount,
     fill_quote_amount |-> ord.price * ord.amount]

\* The exception get_all_order_fills ends with; the fee of a fill is read from
\* self._market, which is None until a refresh has succeeded.
OrderFillsError(ord, mkt, r) ==
    IF StatusPollError(r) # NoError THEN StatusPollError(r)
    ELSE IF IsFilled(ord, r) /\ mkt = NoneVal THEN AttributeError
    ELSE NoError

OrderFillsOutcome(ord, mkt, r) ==
    IF OrderFillsError(ord, mkt, r) # NoError THEN Raises(OrderFillsError(ord, mkt, r))
    ELSE IF IsFilled(ord, r) THEN Returns(NoneVal, <<TradeUpdate(ord)>>)
    ELSE Returns(NoneVal, <<>>)

Call_get_all_order_fills(t) ==
    /\ CanCall(t)
    /\ \E o \in Orders :
        /\ Start(t, OGetAllOrderFills, <<o>>)
        /\ IF FillsPoll(orders, active_orders, o)
           THEN /\ pc' = [pc EXCEPT ![t] = "fills"]
                /\ log' = [log EXCEPT ![t] = <<Request(RStatusUpdates)>>]
                /\ outcome' = [outcome EXCEPT ![t] = Running]
           ELSE /\ pc' = [pc EXCEPT ![t] = "done"]
                /\ log' = [log EXCEPT ![t] = <<>>]
                /\ outcome' = [outcome EXCEPT ![t] = Returns(NoneVal, <<>>)]
    /\ ResetLocals(t)
    /\ UNCHANGED <<bgVars, marketVars, orders, active_orders, lockVars>>

FillsResponse(t) ==
    /\ pc[t] = "fills"
    /\ op[t] = OGetAllOrderFills
    /\ \E r \in StatusAnswers :
        Finish(t, r, OrderFillsOutcome(orders[arg[t][1]], market, r))
    /\ UNCHANGED <<bgVars, marketVars, orders, active_orders, lockVars, op, arg, log, localVars>>

\* ------------------------------------------------------------ start and stop
\* start(): the market refresh is awaited first, whatever the cache holds.
Call_start(t) ==
    /\ CanCall(t)
    /\ Start(t, OStart, <<>>)
    /\ outer' = [outer EXCEPT ![t] = OStart]
    /\ invoked' = Append(invoked, OStart)
    /\ pc' = [pc EXCEPT ![t] = "start_markets"]
    /\ log' = [log EXCEPT ![t] = <<Request(RMarkets)>>]
    /\ outcome' = [outcome EXCEPT ![t] = Running]
    /\ ResetLocals(t)
    /\ UNCHANGED <<marketVars, orders, active_orders, lockVars, tasks_update_markets, loops>>

\* get_clob_markets answers the refresh of start().  A failure of the refresh
\* ends start(); otherwise cancel_all_orders() runs, and finds the markets the
\* refresh has just stored, the configured pair among them.
StartMarketsResponse(t) ==
    /\ pc[t] = "start_markets"
    /\ \E r \in MarketsAnswers :
        /\ UpdateMarketsEffect(r)
        /\ IF UpdateMarketsError(r) # NoError
           THEN /\ Finish(t, Raised(UpdateMarketsError(r)), Raises(UpdateMarketsError(r)))
                /\ UNCHANGED <<lockVars, orders, op, log, localVars>>
           ELSE /\ op' = [op EXCEPT ![t] = OCancelAllOrders]
                /\ resp' = resp
                /\ AfterMarkets_cancel_all_orders(t, <<>>, log[t])
    /\ UNCHANGED <<bgVars, active_orders, arg>>

\* Task.cancel() on the task the handle holds: a task that is over is left as
\* it is.
CancelTask(ls, h) ==
    [k \in DOMAIN ls |->
        IF k \in h /\ ls[k].pc # "ended" THEN [ls[k] EXCEPT !.cancel = TRUE] ELSE ls[k]]

\* stop(): the loop task is cancelled and the handle cleared, then
\* cancel_all_orders() runs.
Call_stop(t) ==
    /\ CanCall(t)
    /\ Start(t, OCancelAllOrders, <<>>)
    /\ outer' = [outer EXCEPT ![t] = OStop]
    /\ invoked' = Append(invoked, OStop)
    /\ loops' = CancelTask(loops, tasks_update_markets)
    /\ tasks_update_markets' = {}
    /\ EnsureMarkets(t, OCancelAllOrders, <<>>)
    /\ UNCHANGED <<marketVars, active_orders>>

\* ------------------------------------------------------------ _update_markets_loop
\* The loop issues its refresh: at its first step, and when the interval is over.
LoopFetch(k) ==
    /\ k \in DOMAIN loops
    /\ loops[k].pc \in {"new", "sleep"}
    /\ ~loops[k].cancel
    /\ loops' = [loops EXCEPT ![k].pc = "fetch"]
    /\ UNCHANGED <<marketVars, orders, active_orders, lockVars, pc, op, arg, log, resp,
                   localVars, outcome, outer, invoked, tasks_update_markets>>

\* The loop after a refresh that ended with exception e: nothing in the loop
\* catches it, the coroutine is over.
LoopAfterRefresh(e) ==
    IF e # NoError THEN LoopTask("ended", FALSE, e) ELSE LoopTask("sleep", FALSE, NoError)

\* get_clob_markets answers the refresh of the loop.
LoopResponse(k) ==
    /\ k \in DOMAIN loops
    /\ loops[k].pc = "fetch"
    /\ ~loops[k].cancel
    /\ \E r \in MarketsAnswers :
        /\ UpdateMarketsEffect(r)
        /\ loops' = [loops EXCEPT ![k] = LoopAfterRefresh(UpdateMarketsError(r))]
    /\ UNCHANGED <<orders, active_orders, lockVars, pc, op, arg, log, resp,
                   localVars, outcome, outer, invoked, tasks_update_markets>>

\* The cancellation reaches the task at the await it is suspended in, or before
\* its first step: CancelledError ends the coroutine.
LoopCancelled(k) ==
    /\ k \in DOMAIN loops
    /\ loops[k].cancel
    /\ loops[k].pc # "ended"
    /\ loops' = [loops EXCEPT ![k] = LoopTask("ended", FALSE, CancelledError)]
    /\ UNCHANGED <<marketVars, orders, active_orders, lockVars, pc, op, arg, log, resp,
                   localVars, outcome, outer, invoked, tasks_update_markets>>

\* ------------------------------------------------------------ specification
\* One caller, one call: the engine calls an operation of the coordinator at
\* rest and the call runs to its end.
Caller == CHOOSE t \in Tasks : \A u \in Tasks : t <= u

Next ==
    \/ Call_place_order(Caller)
    \/ Call_batch_order_create(Caller)
    \/ Call_cancel_order(Caller)
    \/ Call_batch_order_cancel(Caller)
    \/ Call_cancel_all_orders(Caller)
    \/ Call_check_network_status(Caller)
    \/ MarketsResponse(Caller)
    \/ PlaceOrderResponse(Caller)
    \/ BatchCreateResponse(Caller)
    \/ ExchangeIdTimeout(Caller)
    \/ CancelOrderResponse(Caller)
    \/ GatherWaits(Caller)
    \/ GatherTimeout(Caller)
    \/ GatherDone(Caller)
    \/ BatchCancelResponse(Caller)
    \/ PollResponse(Caller)
    \/ CancelAllResponse(Caller)
    \/ PingResponse(Caller)
    \/ Call_get_last_traded_price(Caller)
    \/ Call_get_order_book_snapshot(Caller)
    \/ Call_get_account_balances(Caller)
    \/ TickerResponse(Caller)
    \/ OrderBookResponse(Caller)
    \/ BalancesResponse(Caller)
    \/ Call_get_order_status_update(Caller)
    \/ StatusResponse(Caller)
    \/ Call_get_all_order_fills(Caller)
    \/ FillsResponse(Caller)

Spec == Init /\ [][Next]_vars

\* The lifecycle of the coordinator: the engine calls start() and stop(), each
\* task one call, in any interleaving, while the loop tasks run.  The orders
\* are resting on the venue and tracked; the lifecycle calls do not read them.
InitLifecycle ==
    /\ InitMarkets
    /\ orders = [i \in Orders |-> Order(i, ToString(i), OPEN)]
    /\ active_orders = Orders
    /\ AtRest

NextLifecycle ==
    \/ \E t \in Tasks : Call_start(t)
    \/ \E t \in Tasks : Call_stop(t)
    \/ \E t \in Tasks : StartMarketsResponse(t)
    \/ \E t \in Tasks : MarketsResponse(t)
    \/ \E t \in Tasks : LockGranted(t)
    \/ \E t \in Tasks : PollResponse(t)
    \/ \E t \in Tasks : CancelAllResponse(t)
    \/ \E k \in DOMAIN loops : LoopFetch(k)
    \/ \E k \in DOMAIN loops : LoopResponse(k)
    \/ \E k \in DOMAIN loops : LoopCancelled(k)

SpecLifecycle == InitLifecycle /\ [][NextLifecycle]_vars

\* Concurrent calls: every task makes one call of an order operation, in any
\* interleaving.  The orders are tracked; each is either just created, without
\* its venue id, or resting on the venue.
InitConcurrent ==
    /\ InitMarkets
    /\ orders \in {f \in [Orders -> UNION {Lifecycle(i) : i \in Orders}] :
                     \A i \in Orders :
                        f[i] \in {Order(i, NoneVal, PENDING_CREATE), Order(i, ToString(i), OPEN)}}
    /\ active_orders = Orders
    /\ AtRest

NextConcurrent ==
    \/ \E t \in Tasks : Call_place_order(t)
    \/ \E t \in Tasks : Call_batch_order_create(t)
    \/ \E t \in Tasks : Call_cancel_order(t)
    \/ \E t \in Tasks : Call_batch_order_cancel(t)
    \/ \E t \in Tasks : Call_cancel_all_orders(t)
    \/ \E t \in Tasks : Call_start(t)
    \/ \E t \in Tasks : Call_stop(t)
    \/ \E t \in Tasks : StartMarketsResponse(t)
    \/ \E t \in Tasks : MarketsResponse(t)
    \/ \E t \in Tasks : LockGranted(t)
    \/ \E t \in Tasks : PlaceOrderResponse(t)
    \/ \E t \in Tasks : BatchCreateResponse(t)
    \/ \E t \in Tasks : ExchangeIdKnown(t)
    \/ \E t \in Tasks : ExchangeIdTimeout(t)
    \/ \E t \in Tasks : CancelOrderResponse(t)
    \/ \E t \in Tasks : GatherWaits(t)
    \/ \E t \in Tasks : GatherTimeout(t)
    \/ \E t \in Tasks : GatherDone(t)
    \/ \E t \in Tasks : BatchCancelResponse(t)
    \/ \E t \in Tasks : PollResponse(t)
    \/ \E t \in Tasks : CancelAllResponse(t)
    \/ \E k \in DOMAIN loops : LoopFetch(k)
    \/ \E k \in DOMAIN loops : LoopResponse(k)
    \/ \E k \in DOMAIN loops : LoopCancelled(k)

SpecConcurrent == InitConcurrent /\ [][NextConcurrent]_vars

\* The caller has taken what the call of task t gave it: the task can make
\* another call.
Return(t) ==
    /\ pc[t] = "done"
    /\ pc' = [pc EXCEPT ![t] = "idle"]
    /\ op' = [op EXCEPT ![t] = NoOp]
    /\ arg' = [arg EXCEPT ![t] = <<>>]
    /\ log' = [log EXCEPT ![t] = <<>>]
    /\ resp' = [resp EXCEPT ![t] = NoAnswer]
    /\ outcome' = [outcome EXCEPT ![t] = Running]
    /\ outer' = [outer EXCEPT ![t] = NoOp]
    /\ ResetLocals(t)
    /\ UNCHANGED <<invoked, tasks_update_markets, loops, marketVars, lockVars, orders,
                   active_orders>>

\* Calls that follow one another: single cancels and batch places, each task
\* calling again when its call has ended, on a coordinator whose markets are
\* loaded and whose orders rest at the venue.  An order a batch place has
\* given a new client id is not found by the tracker any more, and a cancel of
\* it ends at once: no cancel waits for a venue id here.
InitOrdering ==
    /\ markets = [loaded |-> TRUE, pairs |-> {TradingPair}]
    /\ market = TradingPair
    /\ markets_info = {TradingPair}
    /\ orders = [i \in Orders |-> Order(i, ToString(i), OPEN)]
    /\ active_orders = Orders
    /\ AtRest

NextOrdering ==
    \/ \E t \in Tasks : Call_cancel_order(t)
    \/ \E t \in Tasks : Call_batch_order_create(t)
    \/ \E t \in Tasks : LockGranted(t)
    \/ \E t \in Tasks : CancelOrderResponse(t)
    \/ \E t \in Tasks : BatchCreateResponse(t)
    \/ \E t \in Tasks : Return(t)

SpecOrdering == InitOrdering /\ [][NextOrdering]_vars

\* Concurrent cancels, single and batch, of orders some of which never receive
\* a venue id.  The event loop runs every task that can run, and the gateway
\* answers every request: each step of a call that stays possible is taken.
\* Whether and when a call is made is the caller's choice.
NextCancel ==
    \/ \E t \in Tasks : Call_cancel_order(t)
    \/ \E t \in Tasks : Call_batch_order_cancel(t)
    \/ \E t \in Tasks : MarketsResponse(t)
    \/ \E t \in Tasks : LockGranted(t)
    \/ \E t \in Tasks : ExchangeIdTimeout(t)
    \/ \E t \in Tasks : CancelOrderResponse(t)
    \/ \E t \in Tasks : GatherWaits(t)
    \/ \E t \in Tasks : GatherTimeout(t)
    \/ \E t \in Tasks : GatherDone(t)
    \/ \E t \in Tasks : BatchCancelResponse(t)

FairCancel ==
    \A t \in Tasks :
        /\ WF_vars(MarketsResponse(t))
        /\ WF_vars(LockGranted(t))
        /\ WF_vars(ExchangeIdTimeout(t))
        /\ WF_vars(CancelOrderResponse(t))
        /\ WF_vars(GatherWaits(t))
        /\ WF_vars(GatherTimeout(t))
        /\ WF_vars(GatherDone(t))
        /\ WF_vars(BatchCancelResponse(t))

SpecCancelFair == InitConcurrent /\ [][NextCancel]_vars /\ FairCancel

\* ------------------------------------------------------------ properties
Done(t, o) == pc[t] = "done" /\ op[t] = o
Issued(t, r) == Request(r) \in Range(log[t])
InvalidHash(r) == r.exc = NoError /\ r.txHash \in {NoneVal, EmptyHash}

\* The tracker finds the order under the client id it carries now.
Tracked(o) == FetchTrackedOrder(active_orders, orders[o].client_order_id) # {}

\* C1: a place_order call whose gateway response carries a null or empty txHash,
\* the transport having raised nothing, raises to its caller and returns no
\* (venue id, metadata) result.
C1_PlaceOrderInvalidHashRaises ==
    \A t \in Tasks :
        (Done(t, OPlaceOrder) /\ Issued(t, RPlaceOrder) /\ InvalidHash(resp[t]))
            => (outcome[t].kind = "raise" /\ outcome[t].results = <<>>)

C1_Witness ==
    \E t \in Tasks :
        /\ Done(t, OPlaceOrder)
        /\ Issued(t, RPlaceOrder)
        /\ resp[t].exc = NoError
        /\ resp[t].txHash = EmptyHash
        /\ resp[t].id \in VenueIds
        /\ outcome[t].kind = "raise"

\* C2: a cancel_order call on an order whose tracked state is already CANCELED
\* issues no gateway request (no cancel, no market refresh), takes no lock and
\* returns success with empty metadata.
C2_CancelOfCanceledIsLocal ==
    [][\A t \in Tasks :
        (/\ pc[t] = "idle"
         /\ op'[t] = OCancelOrder
         /\ pc'[t] # "idle"
         /\ Tracked(arg'[t][1])
         /\ orders[arg'[t][1]].current_state = CANCELED)
            => (/\ pc'[t] = "done"
                /\ log'[t] = <<>>
                /\ locked' = locked
                /\ waiters' = waiters
                /\ outcome'[t] = Returns("True", <<Result(NoneVal, NoneVal, EmptyMeta, NoneVal)>>))]_vars

C2_Witness ==
    \E t \in Tasks :
        /\ Done(t, OCancelOrder)
        /\ Tracked(arg[t][1])
        /\ orders[arg[t][1]].current_state = CANCELED
        /\ log[t] = <<>>
        /\ ~CheckMarketsInitialized
        /\ outcome[t].kind = "return"
        /\ outcome[t].results[1].meta = EmptyMeta

\* C3: when cancel_order on a tracked, non-CANCELED order receives the venue's
\* "order not found" error, the call returns success with the 64-zero hash as
\* its cancellation hash and the order is CANCELED afterwards.
C3_NotFoundIsSuccess ==
    \A t \in Tasks :
        (Done(t, OCancelOrder) /\ Issued(t, RCancelOrder) /\ resp[t].exc = NotFoundError)
            => (/\ outcome[t] = Returns("True", <<Result(NoneVal, NoneVal, CancelationHash, ZeroHash)>>)
                /\ orders[arg[t][1]].current_state = CANCELED)

C3_Witness ==
    \E t \in Tasks :
        /\ Done(t, OCancelOrder)
        /\ Issued(t, RCancelOrder)
        /\ resp[t].exc = NotFoundError
        /\ outcome[t].kind = "return"
        /\ orders[arg[t][1]].current_state = CANCELED

\* C4: when cancel_order on a tracked, non-CANCELED order gets a gateway error
\* other than "order not found", or a response with a null or empty txHash, the
\* call raises and does not mark the order CANCELED.
C4_CancelFailureRaises ==
    [][\A t \in Tasks :
        (/\ pc[t] = "request"
         /\ op[t] = OCancelOrder
         /\ pc'[t] = "done"
         /\ \/ resp'[t].exc \notin {NoError, NotFoundError}
            \/ InvalidHash(resp'[t]))
            => (/\ outcome'[t].kind = "raise"
                /\ orders'[arg[t][1]].current_state = orders[arg[t][1]].current_state
                /\ orders'[arg[t][1]].current_state # CANCELED)]_vars

C4_Witness ==
    \E t \in Tasks :
        /\ Done(t, OCancelOrder)
        /\ Issued(t, RCancelOrder)
        /\ InvalidHash(resp[t])
        /\ outcome[t].kind = "raise"
        /\ Tracked(arg[t][1])
        /\ orders[arg[t][1]].current_state = OPEN

\* C5: every successful batch_order_create returns as many results as it was
\* given orders, the i-th with the i-th order's client id and the i-th venue id
\* of the response, all with the transaction hash of the response.
C5_OneResultPerInputOrder ==
    \A t \in Tasks :
        (Done(t, OBatchOrderCreate) /\ outcome[t].kind = "return")
            => (/\ Len(outcome[t].results) = Len(arg[t])
                /\ \A k \in 1..Len(arg[t]) :
                    /\ outcome[t].results[k].cid = orders[arg[t][k]].client_order_id
                    /\ outcome[t].results[k].eid = resp[t].ids[k]
                    /\ outcome[t].results[k].tx = resp[t].txHash)

\* C6: a batch-create response with a null or empty txHash fails the whole
\* call with a RuntimeError: no PlaceOrderResult is returned for any order.
C6_BatchCreateInvalidHashFails ==
    \A t \in Tasks :
        (Done(t, OBatchOrderCreate) /\ Issued(t, RBatchModify) /\ InvalidHash(resp[t]))
            => outcome[t] = Raises(RuntimeError)

C6_Witness ==
    \E t \in Tasks :
        /\ Done(t, OBatchOrderCreate)
        /\ Issued(t, RBatchModify)
        /\ resp[t].exc = NoError
        /\ resp[t].txHash = NoneVal
        /\ Len(arg[t]) = 2
        /\ Len(resp[t].ids) = 2
        /\ outcome[t].kind = "raise"

\* C7: every successful batch_order_cancel returns one CancelOrderResult per
\* requested order, in request order, the orders left out of the transaction
\* included, all with the transaction hash of the batch.
C7_OneResultPerRequestedOrder ==
    \A t \in Tasks :
        (Done(t, OBatchOrderCancel) /\ outcome[t].kind = "return")
            => (/\ Len(outcome[t].results) = Len(arg[t])
                /\ \A k \in 1..Len(arg[t]) :
                    /\ outcome[t].results[k].cid = orders[arg[t][k]].client_order_id
                    /\ outcome[t].results[k].meta = CancelationHash
                    /\ outcome[t].results[k].tx = resp[t].txHash
                    /\ resp[t].txHash \in TxHashes)

C7_Witness ==
    \E t \in Tasks :
        /\ Done(t, OBatchOrderCancel)
        /\ outcome[t].kind = "return"
        /\ Len(arg[t]) = 2
        /\ Len(found[t]) = 1
        /\ Len(outcome[t].results) = 2

\* C8: cancel_all_orders submits its cancel-only batch request only if the
\* polled list of this account's orders is non-empty; when the poll returns
\* no orders, the call succeeds without sending any batch-modify request.
C8_BatchOnlyWithOrders ==
    \A t \in Tasks :
        (op[t] = OCancelAllOrders /\ Issued(t, RBatchModify)) => orders_ids[t] # <<>>

\* C9: check_network_status returns CONNECTED when the ping answers true and
\* NOT_CONNECTED when the ping completes without an exception and answers false.
C9_StatusFollowsPingAnswer ==
    \A t \in Tasks :
        (Done(t, OCheckNetworkStatus) /\ resp[t].exc = NoError)
            => outcome[t] = Returns(IF resp[t].pong THEN CONNECTED ELSE NOT_CONNECTED, <<>>)

\* C10: check_network_status raises nothing but a task cancellation: every
\* other exception of the ping becomes the return value NOT_CONNECTED, and a
\* cancellation is propagated unchanged.
C10_OnlyCancellationPropagates ==
    \A t \in Tasks :
        Done(t, OCheckNetworkStatus)
            => (/\ resp[t].exc = CancelledError => outcome[t] = Raises(CancelledError)
                /\ resp[t].exc \notin {NoError, CancelledError}
                        => outcome[t] = Returns(NOT_CONNECTED, <<>>)
                /\ outcome[t].kind = "raise" => outcome[t].exc = CancelledError)

C10_Witness ==
    \E t \in Tasks :
        /\ Done(t, OCheckNetworkStatus)
        /\ resp[t].exc = OtherError
        /\ outcome[t].kind = "return"
        /\ outcome[t].value = NOT_CONNECTED

\* ------------------------------------------------------------ lifecycle properties
IsCall(e) == e \in {OStart, OStop}
Calls == SelectSeq(invoked, IsCall)
AllReturned ==
    \A t \in Tasks : pc[t] = "idle" \/ (pc[t] = "done" /\ outcome[t].kind = "return")
LoopActive(k) == loops[k].pc # "ended" /\ ~loops[k].cancel

\* C11: over any number and any interleaving of start() calls with no stop()
\* between them, at most one loop task is created: between the creations of
\* two loop tasks a stop() was invoked.
C11_OneLoopWithoutStop ==
    \A i \in DOMAIN invoked : \A j \in DOMAIN invoked :
        (i < j /\ invoked[i] = OLaunch /\ invoked[j] = OLaunch)
            => \E k \in i..j : invoked[k] = OStop

C11_Witness ==
    \E t \in Tasks : \E u \in Tasks \ {t} :
        /\ outer[t] = OStart /\ pc[t] = "done" /\ outcome[t].kind = "return"
        /\ outer[u] = OStart /\ pc[u] = "done" /\ outcome[u].kind = "return"
        /\ Lock("cancel_all_orders") \in Range(log[t])
        /\ Lock("cancel_all_orders") \in Range(log[u])
        /\ Launch \in Range(log[t])
        /\ \A i \in DOMAIN invoked : invoked[i] # OStop
        /\ Len(loops) = 1

\* C12: start() runs its steps in the order market refresh, cancel-all, loop
\* launch: the refresh is its first request, and the launch comes last, after
\* the poll and the batch request of cancel-all.  When the initial refresh
\* fails, start() raises that failure, and the call issues no poll and no
\* cancellation, takes no lock and launches no loop.
C12_StartOrder ==
    /\ [](\A t \in Tasks :
            (outer[t] = OStart /\ pc[t] # "idle")
                => (/\ log[t][1] = Request(RMarkets)
                    /\ \A i \in DOMAIN log[t] :
                        log[t][i] = Launch
                            => (/\ i = Len(log[t])
                                /\ pc[t] = "done"
                                /\ outcome[t].kind = "return"
                                /\ \E j \in 2..(i - 1) : \E k \in (j + 1)..(i - 1) :
                                    /\ log[t][j] = Request(RStatusUpdates)
                                    /\ log[t][k] = Request(RBatchModify))))
    /\ [][\A t \in Tasks :
            (pc[t] = "start_markets" /\ pc'[t] # "start_markets" /\ resp'[t].exc # NoError)
                => (/\ pc'[t] = "done"
                    /\ outcome'[t] = Raises(resp'[t].exc)
                    /\ log'[t] = <<Request(RMarkets)>>
                    /\ locked' = locked
                    /\ loops' = loops
                    /\ tasks_update_markets' = tasks_update_markets)]_vars

C12_Witness ==
    \E t \in Tasks :
        /\ outer[t] = OStart
        /\ pc[t] = "done"
        /\ resp[t].exc = KeyError
        /\ outcome[t] = Raises(KeyError)
        /\ log[t] = <<Request(RMarkets)>>
        /\ loops = <<>>

\* C13: for every interleaving of start() and stop() calls, once every
\* lifecycle call has returned and stop() was the most recently invoked one,
\* no loop task is active.
C13_NoLoopAfterStop ==
    (AllReturned /\ Calls # <<>> /\ Calls[Len(Calls)] = OStop)
        => \A k \in DOMAIN loops : ~LoopActive(k)

\* C14: a failed market refresh inside the loop does not end the loop: a loop
\* task whose refresh raised is alive afterwards.
C14_LoopSurvivesFailedRefresh ==
    \A k \in DOMAIN loops :
        loops[k].exc \notin {NoError, CancelledError} => loops[k].pc # "ended"

\* The step is the start of a stop() call.
StopInvoked == \E t \in Tasks : pc[t] = "idle" /\ outer'[t] = OStop

\* C33: start() launches a refresh loop only when the stored loop-task handle
\* is empty, and only stop() empties the handle: after a loop task has ended
\* by its own error, later start() calls launch no replacement loop until a
\* stop() has run.
C33_NoReplacementUntilStop ==
    /\ [][Len(loops') > Len(loops)
            => (/\ tasks_update_markets = {}
                /\ tasks_update_markets' = {Len(loops')}
                /\ \E t \in Tasks : outer[t] = OStart /\ pc[t] # "done" /\ pc'[t] = "done")]_vars
    /\ [][(tasks_update_markets # {} /\ tasks_update_markets' # tasks_update_markets)
            => (StopInvoked /\ tasks_update_markets' = {})]_vars
    /\ [][(\E k \in tasks_update_markets :
              loops[k].pc = "ended" /\ loops[k].exc # CancelledError)
            => (Len(loops') = Len(loops) \/ StopInvoked)]_vars

\* The loop of the first start() has ended by the error of its refresh; a
\* second start(), invoked after the launch, has returned and there is still
\* that one, ended, loop task under the handle.
C33_Witness ==
    \E t \in Tasks : \E u \in Tasks \ {t} :
        /\ invoked = <<OStart, OLaunch, OStart>>
        /\ outer[t] = OStart /\ pc[t] = "done" /\ Launch \in Range(log[t])
        /\ outer[u] = OStart /\ pc[u] = "done" /\ outcome[u].kind = "return"
        /\ Launch \notin Range(log[u])
        /\ Len(loops) = 1
        /\ loops[1].pc = "ended"
        /\ loops[1].exc \in {OtherError, KeyError}
        /\ tasks_update_markets = {1}

\* ------------------------------------------------------------ query properties
\* The requests of the order, cancellation, pricing and balance operations.
GuardedOps == {OPlaceOrder, OBatchOrderCreate, OCancelOrder, OBatchOrderCancel,
               OCancelAllOrders, OGetLastTradedPrice, OGetOrderBookSnapshot,
               OGetAccountBalances}
AwaitsRequest(t) ==
    /\ pc[t] \notin {"idle", "done", "markets", "lock", "wait_id", "gather", "gathering"}
    /\ log[t] # <<>>
    /\ log[t][Len(log[t])][1] = "request"

\* C15: whenever an order, cancellation, pricing or balance operation has its
\* gateway request in flight, the cached market mapping is non-null and
\* non-empty.
C15_MarketsCachedAtRequest ==
    \A t \in Tasks :
        (op[t] \in GuardedOps /\ AwaitsRequest(t)) => CheckMarketsInitialized

\* C17: get_order_status_update on an order that is untracked, or tracked and
\* CANCELED, issues no gateway request and returns an update whose state,
\* client id and venue id are the order's local values.
C17_StatusOfUntrackedOrCanceledIsLocal ==
    \A t \in Tasks :
        LET o == arg[t][1] IN
        (/\ Done(t, OGetOrderStatusUpdate)
         /\ (~Tracked(o) \/ orders[o].current_state = CANCELED))
            => (/\ log[t] = <<>>
                /\ outcome[t].kind = "return"
                /\ outcome[t].value = orders[o].current_state
                /\ Len(outcome[t].results) = 1
                /\ outcome[t].results[1].cid = orders[o].client_order_id
                /\ outcome[t].results[1].eid = orders[o].exchange_order_id)

C17_Witness ==
    \E t \in Tasks :
        /\ Done(t, OGetOrderStatusUpdate)
        /\ Tracked(arg[t][1])
        /\ orders[arg[t][1]].current_state = CANCELED
        /\ log[t] = <<>>
        /\ outcome[t].value = CANCELED
        /\ outcome[t].results[1].eid \in VenueIds

\* C18: when the status poll of a tracked, non-CANCELED order answers without
\* a matching record, an empty order list included, get_order_status_update
\* does not raise and returns an update with the order's local state.
C18_NoRecordFallsBack ==
    \A t \in Tasks :
        (/\ Done(t, OGetOrderStatusUpdate)
         /\ Issued(t, RStatusUpdates)
         /\ resp[t].exc = NoError
         /\ ~HasRecord(resp[t]))
            => (/\ outcome[t].kind = "return"
                /\ outcome[t].value = orders[arg[t][1]].current_state)

\* C19: for a tracked, non-CANCELED order with a venue id, whenever the poll
\* answers (with state names of the table), get_all_order_fills returns exactly
\* one fill if the status mapped from the poll is FILLED, with the order's
\* price and amount, and the empty list in every other case.
C19_OneFillIffFilled ==
    \A t \in Tasks :
        LET o == arg[t][1]
            r == resp[t]
            filled == HasRecord(r) /\ ToHummingbot(r.ids[1]) = FILLED
        IN
        (/\ Done(t, OGetAllOrderFills)
         /\ Tracked(o)
         /\ orders[o].current_state # CANCELED
         /\ orders[o].exchange_order_id # NoneVal
         /\ r.exc = NoError
         /\ HasRecord(r) => ToHummingbot(r.ids[1]) # Unmapped)
            => (/\ outcome[t].kind = "return"
                /\ Len(outcome[t].results) = (IF filled THEN 1 ELSE 0)
                /\ \A i \in DOMAIN outcome[t].results :
                    /\ outcome[t].results[i].fill_price = orders[o].price
                    /\ outcome[t].results[i].fill_base_amount = orders[o].amount)

\* C20: get_all_order_fills issues no gateway request and returns the empty
\* list whenever the order has no venue id, is untracked, or has tracked state
\* CANCELED.
C20_FillsShortCircuit ==
    \A t \in Tasks :
        LET o == arg[t][1] IN
        (/\ Done(t, OGetAllOrderFills)
         /\ \/ orders[o].exchange_order_id = NoneVal
            \/ ~Tracked(o)
            \/ orders[o].current_state = CANCELED)
            => (log[t] = <<>> /\ outcome[t] = Returns(NoneVal, <<>>))

C20_Witness ==
    \E t \in Tasks :
        /\ Done(t, OGetAllOrderFills)
        /\ Tracked(arg[t][1])
        /\ orders[arg[t][1]].current_state = PENDING_CREATE
        /\ orders[arg[t][1]].exchange_order_id = NoneVal
        /\ log[t] = <<>>
        /\ outcome[t] = Returns(NoneVal, <<>>)

\* ------------------------------------------------------------ order operation properties
\* C21: for every place_order call whose response carries a non-empty txHash
\* (and the id the claim speaks of), the order's venue id is set to the
\* response id, and the call returns that venue id together with metadata
\* whose creation transaction hash is the response's txHash.
C21_PlaceOrderStoresAndReturnsId ==
    \A t \in Tasks :
        (/\ Done(t, OPlaceOrder)
         /\ Issued(t, RPlaceOrder)
         /\ resp[t].exc = NoError
         /\ resp[t].txHash \in TxHashes
         /\ resp[t].id # Missing)
            => (/\ orders[arg[t][1]].exchange_order_id = resp[t].id
                /\ outcome[t].kind = "return"
                /\ outcome[t].results =
                       <<Result(NoneVal, resp[t].id, CreationHash, resp[t].txHash)>>)

\* A call on an order that held another venue id returns the id of the response.
C21_Witness ==
    \E t \in Tasks :
        /\ Done(t, OPlaceOrder)
        /\ Issued(t, RPlaceOrder)
        /\ arg[t] = <<1>>
        /\ resp[t].txHash = "0xaa"
        /\ resp[t].id = "2"
        /\ orders[1].exchange_order_id = "2"
        /\ outcome[t].results = <<Result(NoneVal, "2", CreationHash, "0xaa")>>

\* The three fields of the registry hold one refresh response, or nothing.
RegistryOfOneResponse ==
    IF markets.loaded
    THEN /\ TradingPair \in markets.pairs
         /\ market = TradingPair
         /\ markets_info = markets.pairs
    ELSE /\ market = NoneVal
         /\ markets_info = {}

\* The refresh awaited by the call of task t ends with an exception.
RefreshFails(t) ==
    /\ pc[t] = "markets"
    /\ pc'[t] = "done"
    /\ outcome'[t].kind = "raise"

\* C23: after any successful refresh, and at every point where another
\* operation can read the registry, the cached market mapping, the selected
\* market of the configured pair and the name-to-market index all come from
\* one and the same refresh response; a refresh that fails leaves all three as
\* they were before it started.
C23_RegistryReplacedAtomically ==
    /\ []RegistryOfOneResponse
    /\ [][\A t \in Tasks : RefreshFails(t) => UNCHANGED marketVars]_vars

\* C24: in batch_order_cancel, an order whose venue-id resolution times out is
\* left out of the submitted cancel list while every order whose resolution
\* did not time out is in it, and the timeout of one order does not make the
\* whole call fail: the request is sent with exactly the orders whose wait
\* returned, and the call returns when the response carries a transaction
\* hash.
C24_TimedOutOrdersLeftOut ==
    \A t \in Tasks :
        (op[t] = OBatchOrderCancel /\ pc[t] \in {"request", "done"} /\ timedout[t] # {})
            => (/\ Issued(t, RBatchModify)
                /\ \A k \in DOMAIN arg[t] :
                    (arg[t][k] \in Range(found[t])) <=> (arg[t][k] \notin timedout[t])
                /\ Range(found[t]) = resolved[t]
                /\ \A i, j \in DOMAIN found[t] :
                    i < j => \E k, l \in DOMAIN arg[t] :
                                 k < l /\ arg[t][k] = found[t][i] /\ arg[t][l] = found[t][j]
                /\ (pc[t] = "done" /\ resp[t].exc = NoError /\ resp[t].txHash \in TxHashes)
                       => outcome[t].kind = "return")

\* Of two requested orders the first has no venue id: the request carries the
\* second alone and the call returns.
C24_Witness ==
    \E t \in Tasks :
        /\ Done(t, OBatchOrderCancel)
        /\ arg[t] = <<1, 2>>
        /\ timedout[t] = {1}
        /\ found[t] = <<2>>
        /\ Issued(t, RBatchModify)
        /\ outcome[t].kind = "return"

\* The lifecycle PENDING_CREATE -> OPEN -> {FILLED | CANCELED}, CANCELED and
\* FILLED being final.
LifecycleStep(from, to) ==
    \/ from = PENDING_CREATE /\ to = OPEN
    \/ from = OPEN /\ to \in {FILLED, CANCELED}

\* C25: every change the coordinator itself makes to an order's lifecycle
\* state follows PENDING_CREATE -> OPEN -> {FILLED | CANCELED}: it never moves
\* an order to CANCELED from FILLED or directly from PENDING_CREATE, and once
\* an order is CANCELED no operation moves it to another state.
C25_StateChangesFollowLifecycle ==
    [][\A o \in Orders :
          orders'[o].current_state # orders[o].current_state
              => LifecycleStep(orders[o].current_state, orders'[o].current_state)]_vars

\* C28: batch_order_create generates a client id only for the input orders
\* that lack one: an input order that already has a client id keeps that id
\* unchanged (and so the same logical order has the same id on every retry).
C28_ExistingClientIdsKept ==
    [][\A o \in Orders :
          orders[o].client_order_id # NoneVal
              => orders'[o].client_order_id = orders[o].client_order_id]_vars

\* C29: the orders_to_create list that batch_order_create sends to the gateway
\* holds exactly one entry per input order, in input order, and its
\* orders_to_cancel list is empty.
C29_OneCandidatePerInputOrder ==
    \A t \in Tasks :
        (op[t] = OBatchOrderCreate /\ Issued(t, RBatchModify))
            => (/\ Len(candidate_orders[t]) = Len(arg[t])
                /\ \A k \in DOMAIN arg[t] :
                    /\ k \in DOMAIN candidate_orders[t]
                    /\ candidate_orders[t][k] = CandidateOrder(orders[arg[t][k]])
                /\ OrdersToCancelOfCreate = <<>>)

\* C32: place_order writes the response id into the order before it validates
\* the transaction hash: after a place_order call that fails because the
\* txHash is null or empty, the order carries the venue id of the failed
\* response instead of its previous value.
C32_FailedPlaceKeepsResponseId ==
    \A t \in Tasks :
        (/\ Done(t, OPlaceOrder)
         /\ Issued(t, RPlaceOrder)
         /\ InvalidHash(resp[t])
         /\ resp[t].id # Missing)
            => (/\ outcome[t] = Raises(InvalidHashError)
                /\ orders[arg[t][1]].exchange_order_id = resp[t].id)

\* The response with a null hash carried a venue id the order never had, and
\* the order holds it after the failed call.
C32_Witness ==
    \E t \in Tasks :
        /\ Done(t, OPlaceOrder)
        /\ Issued(t, RPlaceOrder)
        /\ arg[t] = <<1>>
        /\ resp[t].exc = NoError
        /\ resp[t].txHash = NoneVal
        /\ resp[t].id = "2"
        /\ orders[1].exchange_order_id = "2"
        /\ outcome[t].kind = "raise"

\* C35: after a successful batch_order_create, the venue id field of every
\* input order is null: the venue ids of the response are reported only in
\* the returned PlaceOrderResult records and are not stored on the orders.
C35_VenueIdsOnlyInResults ==
    \A t \in Tasks :
        (Done(t, OBatchOrderCreate) /\ outcome[t].kind = "return")
            => (/\ \A k \in DOMAIN arg[t] : orders[arg[t][k]].exchange_order_id = NoneVal
                /\ \A k \in DOMAIN outcome[t].results :
                    outcome[t].results[k].eid = resp[t].ids[k])

\* ------------------------------------------------------------ concurrency properties
LockedOps == {OPlaceOrder, OBatchOrderCreate, OCancelOrder, OBatchOrderCancel,
              OCancelAllOrders}

\* The call of task t has a request of operation o in flight under the lock of
\* its category: the mutating request, or the poll of cancel-all before it.
InFlight(t, o) == op[t] = o /\ pc[t] \in {"request", "poll"}

\* C22: over every interleaving of concurrent cancel_order calls on the same
\* tracked, non-CANCELED order, at most one cancel request for that order is
\* submitted to the gateway.  Two calls that both submitted one were
\* concurrent when the first has returned, having cancelled the order, while
\* the request of the second is in flight: the second passed the state check
\* before the first ended.
C22_NoDoubleCancelSubmission ==
    \A t \in Tasks : \A u \in Tasks \ {t} :
        ~(/\ Done(t, OCancelOrder)
          /\ Issued(t, RCancelOrder)
          /\ outcome[t].kind = "return"
          /\ op[u] = OCancelOrder
          /\ arg[u] = arg[t]
          /\ pc[u] = "request"
          /\ Issued(u, RCancelOrder))

\* The locks task t holds, and those it waits for.
HeldBy(t) == {l \in LockNames : t \in locked[l]}
WaitedBy(t) == {l \in LockNames : t \in Range(waiters[l])}

\* C30: no operation ever holds or waits for a second operation lock while it
\* holds one, so no reachable state is a deadlock among the order-operation
\* locks: a task holds or waits for at most one lock, and a lock somebody
\* waits for is free, to be granted to the first waiter, or held by a call
\* that awaits the answer of the gateway and no lock.
C30_NoNestedLocks ==
    /\ \A t \in Tasks : Cardinality(HeldBy(t)) + Cardinality(WaitedBy(t)) <= 1
    /\ \A l \in LockNames :
        waiters[l] # <<>>
            => \/ locked[l] = {} /\ pc[Head(waiters[l])] = "lock"
               \/ \E h \in locked[l] : pc[h] \in {"request", "poll"} /\ WaitedBy(h) = {}

\* A call waits for the cancel-all lock while another call, which holds it,
\* has its batch request in flight, and a third lock is not involved.
C30_Witness ==
    \E t \in Tasks : \E u \in Tasks \ {t} :
        /\ op[t] = OCancelAllOrders
        /\ pc[t] = "request"
        /\ HeldBy(t) = {LockOf(OCancelAllOrders)}
        /\ op[u] = OCancelAllOrders
        /\ WaitedBy(u) = {LockOf(OCancelAllOrders)}
        /\ HeldBy(u) = {}

\* C26: calls of one operation category obtain that category's lock, and so
\* send their gateway requests, in the order in which they requested the lock
\* (FIFO): a call joins the queue of a lock at its end, a lock is taken at once
\* only when nobody waits for it, and otherwise goes to the call at the head of
\* the queue; whoever obtains the lock sends its request in the same step.
\* Between calls of different categories no order is enforced.
C26_LocksGrantedInRequestOrder ==
    [][\A l \in LockNames :
          /\ waiters'[l] # waiters[l]
                => \/ waiters[l] # <<>> /\ waiters'[l] = Tail(waiters[l])
                   \/ \E t \in Tasks : waiters'[l] = Append(waiters[l], t)
          /\ \A t \in locked'[l] \ locked[l] :
                /\ locked'[l] = {t}
                /\ \/ waiters[l] = <<>> /\ waiters'[l] = <<>>
                   \/ /\ waiters[l] # <<>>
                      /\ Head(waiters[l]) = t
                      /\ waiters'[l] = Tail(waiters[l])
                /\ pc'[t] \in {"request", "poll"}
                /\ Len(log'[t]) >= 2
                /\ log'[t][Len(log'[t]) - 1] = Lock(l)
                /\ log'[t][Len(log'[t])] = Request(FirstRequest(op'[t]))]_vars

\* A single cancel and a batch place both in flight at the gateway.
C26_Witness ==
    \E t \in Tasks : \E u \in Tasks \ {t} :
        /\ InFlight(t, OCancelOrder)
        /\ locked[LockOf(OCancelOrder)] = {t}
        /\ InFlight(u, OBatchOrderCreate)
        /\ locked[LockOf(OBatchOrderCreate)] = {u}

\* C27: under fair scheduling and a gateway that answers every request, every
\* cancel_order and batch_order_cancel call eventually returns or raises, also
\* for an order that never receives a venue id, because waiting for the venue
\* id is bounded by a timeout.
C27_CancelsTerminate ==
    \A t \in Tasks :
        (op[t] \in {OCancelOrder, OBatchOrderCancel} /\ pc[t] # "idle")
            ~> (pc[t] = "done" /\ outcome[t].kind \in {"return", "raise"})

\* Both calls have ended on orders without a venue id: the single cancel by the
\* timeout of its wait, the batch cancel after the timeout of its gather.
C27_Witness ==
    \E t \in Tasks : \E u \in Tasks \ {t} :
        /\ Done(t, OCancelOrder)
        /\ orders[arg[t][1]].exchange_order_id = NoneVal
        /\ outcome[t] = Raises(TimeoutError)
        /\ Done(u, OBatchOrderCancel)
        /\ timedout[u] # {}
        /\ outcome[u].kind = "return"

\* C31: every operation lock is released when the call that took it ends,
\* whether it returns or raises (gateway error, empty hash, missing response
\* field): a lock is held only by a call of its category whose request is in
\* flight, and in every state where no operation is in flight all operation
\* locks are free.
C31_LocksFreeAtRest ==
    /\ \A l \in LockNames : \A t \in locked[l] :
        /\ pc[t] \in {"request", "poll"}
        /\ LockOf(op[t]) = l
    /\ (\A t \in Tasks : pc[t] \in {"idle", "done"})
          => \A l \in LockNames : locked[l] = {} /\ waiters[l] = <<>>

\* Every call has ended, one by the empty hash of place_order's response and
\* one by a batch-cancel response without txHash, and the locks are free.
C31_Witness ==
    /\ \A t \in Tasks : pc[t] = "done"
    /\ \E t \in Tasks :
        /\ Done(t, OPlaceOrder)
        /\ Issued(t, RPlaceOrder)
        /\ resp[t].txHash = EmptyHash
        /\ outcome[t] = Raises(InvalidHashError)
    /\ \E u \in Tasks :
        /\ Done(u, OBatchOrderCancel)
        /\ Issued(u, RBatchModify)
        /\ resp[u].exc = NoError
        /\ resp[u].txHash = Missing
        /\ outcome[u] = Raises(KeyError)
    /\ \A l \in LockNames : locked[l] = {} /\ waiters[l] = <<>>

\* C34: cancel_order is the only operation that changes an order's local
\* lifecycle state: batch_order_cancel and cancel_all_orders leave the state
\* of every order unchanged also when their transaction succeeds, so an order
\* cancelled through them is still non-CANCELED locally and a later
\* cancel_order on it submits a cancel request.
C34_OnlyCancelOrderChangesState ==
    [][\A o \in Orders :
          orders'[o].current_state # orders[o].current_state
              => \E t \in Tasks :
                    /\ op[t] = OCancelOrder
                    /\ arg[t] = <<o>>
                    /\ pc[t] = "request"
                    /\ pc'[t] = "done"]_vars

\* A batch cancel of an order has returned with a transaction hash, the order
\* is still OPEN, and a cancel_order on it has its request in flight.
C34_Witness ==
    \E t \in Tasks : \E u \in Tasks \ {t} : \E o \in Orders :
        /\ Done(t, OBatchOrderCancel)
        /\ outcome[t].kind = "return"
        /\ resp[t].txHash \in TxHashes
        /\ o \in Range(found[t])
        /\ orders[o].current_state = OPEN
        /\ op[u] = OCancelOrder
        /\ arg[u] = <<o>>
        /\ pc[u] = "request"
        /\ Issued(u, RCancelOrder)

\* C16: for each operation category (single place, batch place, single cancel,
\* batch cancel, cancel-all), at most one call of that category has its
\* gateway request in flight at any time, and that call holds the lock of the
\* category.
C16_OneInFlightPerCategory ==
    \A o \in LockedOps :
        \A t \in Tasks :
            InFlight(t, o)
                => (/\ locked[LockOf(o)] = {t}
                    /\ \A u \in Tasks \ {t} : ~InFlight(u, o))

C16_Witness ==
    \E t \in Tasks : \E u \in Tasks \ {t} :
        /\ InFlight(t, OBatchOrderCreate)
        /\ op[u] = OBatchOrderCreate
        /\ pc[u] = "lock"
        /\ waiters[LockOf(OBatchOrderCreate)] = <<u>>

====
